---- MODULE Spec2Model ----
(***************************************************************************)
(* A model of src/database.rs of integrity-checker: the metrics engines,   *)
(* the snapshot tree (Entry::insert, Entry::lookup), the merge diff        *)
(* (Entry::diff) and the report (EntryDiff::show_diff).                    *)
(*                                                                         *)
(* A BTreeMap<PathBuf, V> is a function whose domain is a finite set of    *)
(* keys; a key is the rank of a path segment in the segment order, so the  *)
(* map's iteration order is the ascending order of the naturals.  A path   *)
(* is the sequence of its segments.  Option<T> is a sequence of length at  *)
(* most one.                                                               *)
(***************************************************************************)
EXTENDS Naturals, Sequences, FiniteSets

VARIABLES
    old, new,       \* the two snapshots handed to Database::show_diff
    pc,             \* position in Database::show_diff / Entry::diff
    loop,           \* the locals of the merge loop of the root directories
    result,         \* the EntryDiff returned by Database::diff
    output,         \* the lines printed by EntryDiff::show_diff
    database,       \* the snapshot under construction in Database::build
    status,         \* "ok", or "panicked" once an insert has hit unreachable!()
    inserted,       \* the files the walker has handed to insert so far
    call,           \* the last insert or lookup call and what it returned
    content,        \* the bytes of the file read by compute_metrics
    offset,         \* how many of them have been read
    engines,        \* the Engines accumulators
    metrics,        \* compute_metrics' result
    mpc             \* position in compute_metrics

diffVars == <<old, new, pc, loop, result, output>>
buildVars == <<database, status, inserted, call>>
metricsVars == <<content, offset, engines, metrics, mpc>>
vars == <<old, new, pc, loop, result, output, database, status, inserted, call,
          content, offset, engines, metrics, mpc>>

(***************************************************************************)
(* Bounds.                                                                 *)
(***************************************************************************)
NumKeys == 2
MaxFiles == 2
MaxFileLen == 3

Keys == 1..NumKeys
\* The relative paths the walker yields: one or two segments.
Paths == {<<k>> : k \in Keys} \cup {<<k, j>> : k \in Keys, j \in Keys}
\* What lookup may be called with: any path, the empty one included.
LookupPaths == {<<>>} \cup Paths \cup {<<k, j, l>> : k \in Keys, j \in Keys, l \in Keys}
Digests == {"d1", "d2"}
Sizes == {0, 1, 100}
Bytes == {0, 65, 128, 255}

None == <<>>
Some(x) == <<x>>

(***************************************************************************)
(* The data model.                                                         *)
(***************************************************************************)
Metrics(sha2, sha3, size, nul, nonascii) ==
    [sha2 |-> sha2, sha3 |-> sha3, size |-> size, nul |-> nul, nonascii |-> nonascii]

AllMetrics ==
    {Metrics(a, b, s, z, h) : a \in Digests, b \in Digests, s \in Sizes,
                              z \in BOOLEAN, h \in BOOLEAN}

\* The metrics of the files of the snapshot trees: an empty file and a text file.
TreeMetrics ==
    {Metrics("d1", "d1", 0, FALSE, FALSE), Metrics("d2", "d2", 100, FALSE, FALSE)}

Directory(entries) == [kind |-> "Directory", entries |-> entries]
File(m) == [kind |-> "File", metrics |-> m]
EntryDefault == Directory(<<>>)

DirectoryDiff(added, removed, changed, unchanged) ==
    [added |-> added, removed |-> removed, changed |-> changed, unchanged |-> unchanged]

DiffDirectory(entries, stats) == [kind |-> "Directory", entries |-> entries, stats |-> stats]
DiffFile(stats) == [kind |-> "File", stats |-> stats]
KindChanged == [kind |-> "KindChanged"]

\* BTreeMap::insert: the map with key k bound to v.
MapInsert(m, k, v) == [x \in (DOMAIN m) \cup {k} |-> IF x = k THEN v ELSE m[x]]

SetMin(S) == CHOOSE x \in S : \A y \in S : x <= y

RECURSIVE SortedSeq(_)
SortedSeq(S) ==
    IF S = {} THEN <<>>
    ELSE LET m == SetMin(S) IN <<m>> \o SortedSeq(S \ {m})

\* BTreeMap::iter: the keys not yet yielded, in ascending order.
MapIter(m) == SortedSeq(DOMAIN m)

\* Iterator::next: the next key, if any, and the advanced iterator.
IterNext(iter) ==
    IF iter = <<>> THEN [item |-> None, iter |-> <<>>]
    ELSE [item |-> Some(Head(iter)), iter |-> Tail(iter)]

\* Iterator::count: the number of items not yet yielded.
IterCount(iter) == Len(iter)

(***************************************************************************)
(* Entry::diff.                                                            *)
(***************************************************************************)
\* MetricsDiff as it would be if the second digest were not compared.
MetricsDiffNoSha3(o, n) ==
    [changed_content |-> o.size # n.size \/ o.sha2 # n.sha2,
     zeroed |-> o.size > 0 /\ n.size = 0,
     changed_nul |-> o.nul # n.nul,
     changed_nonascii |-> o.nonascii # n.nonascii]

MetricsDiff(o, n) ==
    [changed_content |-> o.size # n.size \/ o.sha2 # n.sha2 \/ o.sha3 # n.sha3,
     zeroed |-> o.size > 0 /\ n.size = 0,
     changed_nul |-> o.nul # n.nul,
     changed_nonascii |-> o.nonascii # n.nonascii]

\* The locals of the merge loop after lines 256-265.
MergeInit(o, n) ==
    LET on == IterNext(MapIter(o))
        nn == IterNext(MapIter(n))
    IN [entries |-> <<>>, added |-> 0, removed |-> 0, changed |-> 0, unchanged |-> 0,
        old_iter |-> on.iter, new_iter |-> nn.iter,
        old_entry |-> on.item, new_entry |-> nn.item]

\* The loop condition of line 266.
MergeContinues(s) == s.old_entry # None /\ s.new_entry # None

\* Tally with the two branches of the File arm swapped.
TallyFileSwapped(s, diff) ==
    CASE diff.kind = "Directory" ->
            [s EXCEPT !.added = @ + diff.stats.added,
                      !.removed = @ + diff.stats.removed,
                      !.changed = @ + diff.stats.changed,
                      !.unchanged = @ + diff.stats.unchanged]
      [] diff.kind = "File" ->
            IF diff.stats.changed_content
            THEN [s EXCEPT !.unchanged = @ + 1]
            ELSE [s EXCEPT !.changed = @ + 1]
      [] diff.kind = "KindChanged" ->
            [s EXCEPT !.changed = @ + 1]

\* Tally with a KindChanged child counted as unchanged.
TallyKindUnchanged(s, diff) ==
    CASE diff.kind = "Directory" ->
            [s EXCEPT !.added = @ + diff.stats.added,
                      !.removed = @ + diff.stats.removed,
                      !.changed = @ + diff.stats.changed,
                      !.unchanged = @ + diff.stats.unchanged]
      [] diff.kind = "File" ->
            IF diff.stats.changed_content
            THEN [s EXCEPT !.changed = @ + 1]
            ELSE [s EXCEPT !.unchanged = @ + 1]
      [] diff.kind = "KindChanged" ->
            [s EXCEPT !.unchanged = @ + 1]

\* Tally with a subdirectory counted as one entry, changed or not.
TallyDirectoryAsOne(s, diff) ==
    CASE diff.kind = "Directory" ->
            IF diff.stats.added > 0 \/ diff.stats.removed > 0 \/ diff.stats.changed > 0
            THEN [s EXCEPT !.added = @ + diff.stats.added,
                           !.removed = @ + diff.stats.removed,
                           !.changed = @ + 1]
            ELSE [s EXCEPT !.unchanged = @ + 1]
      [] diff.kind = "File" ->
            IF diff.stats.changed_content
            THEN [s EXCEPT !.changed = @ + 1]
            ELSE [s EXCEPT !.unchanged = @ + 1]
      [] diff.kind = "KindChanged" ->
            [s EXCEPT !.changed = @ + 1]

\* The match of lines 280-297: the child's diff rolled into the counters.
Tally(s, diff) ==
    CASE diff.kind = "Directory" ->
            [s EXCEPT !.added = @ + diff.stats.added,
                      !.removed = @ + diff.stats.removed,
                      !.changed = @ + diff.stats.changed,
                      !.unchanged = @ + diff.stats.unchanged]
      [] diff.kind = "File" ->
            IF diff.stats.changed_content
            THEN [s EXCEPT !.changed = @ + 1]
            ELSE [s EXCEPT !.unchanged = @ + 1]
      [] diff.kind = "KindChanged" ->
            [s EXCEPT !.changed = @ + 1]

\* The three arms of the match of line 269, given the diff of the two children
\* when the keys are equal.
StepLess(s) ==
    LET nx == IterNext(s.old_iter)
    IN [s EXCEPT !.removed = @ + 1, !.old_entry = nx.item, !.old_iter = nx.iter]

StepGreater(s) ==
    LET nx == IterNext(s.new_iter)
    IN [s EXCEPT !.added = @ + 1, !.new_entry = nx.item, !.new_iter = nx.iter]

StepEqual(s, diff) ==
    LET t == Tally(s, diff)
        on == IterNext(s.old_iter)
        nn == IterNext(s.new_iter)
    IN [t EXCEPT !.entries = MapInsert(@, s.old_entry[1], diff),
                 !.old_entry = on.item, !.old_iter = on.iter,
                 !.new_entry = nn.item, !.new_iter = nn.iter]

\* MergeExit counting the new entry already taken from its iterator, but not
\* the old one.
MergeExitPendingNew(s) ==
    DiffDirectory(s.entries,
                  DirectoryDiff(s.added + IterCount(s.new_iter)
                                    + (IF s.new_entry # None THEN 1 ELSE 0),
                                s.removed + IterCount(s.old_iter),
                                s.changed, s.unchanged))

\* Lines 304-308: what is left in the two iterators is counted, and the diff built.
MergeExit(s) ==
    DiffDirectory(s.entries,
                  DirectoryDiff(s.added + IterCount(s.new_iter),
                                s.removed + IterCount(s.old_iter),
                                s.changed, s.unchanged))

RECURSIVE Diff(_, _)
RECURSIVE MergeLoop(_, _, _)

\* One iteration of the loop body, lines 267-302.
MergeStep(o, n, s) ==
    LET old_key == s.old_entry[1]
        new_key == s.new_entry[1]
    IN IF old_key < new_key THEN StepLess(s)
       ELSE IF old_key > new_key THEN StepGreater(s)
       ELSE StepEqual(s, Diff(o[old_key], n[new_key]))

MergeLoop(o, n, s) ==
    IF MergeContinues(s) THEN MergeLoop(o, n, MergeStep(o, n, s)) ELSE s

Diff(self, other) ==
    IF self.kind = "Directory" /\ other.kind = "Directory"
    THEN MergeExit(MergeLoop(self.entries, other.entries,
                             MergeInit(self.entries, other.entries)))
    ELSE IF self.kind = "File" /\ other.kind = "File"
    THEN DiffFile(MetricsDiff(self.metrics, other.metrics))
    ELSE KindChanged

(***************************************************************************)
(* EntryDiff::show_diff: the lines it prints, in order.                    *)
(***************************************************************************)
\* Path::new("."), the path Database::show_diff starts from.
RootPath == 0

RECURSIVE ShowDiff(_, _, _)
RECURSIVE ShowEntries(_, _, _)

ShowEntries(entries, iter, depth) ==
    IF iter = <<>> THEN <<>>
    ELSE ShowDiff(entries[Head(iter)], Head(iter), depth + 1)
         \o ShowEntries(entries, Tail(iter), depth)

ShowFile(diff, path, depth) ==
    IF diff.zeroed \/ diff.changed_nul \/ diff.changed_nonascii
    THEN <<[line |-> "changed", path |-> path, depth |-> depth]>>
         \o (IF diff.zeroed
             THEN <<[line |-> "file was truncated", depth |-> depth]>>
             ELSE <<>>)
         \o (IF diff.changed_nul
             THEN <<[line |-> "original had no NUL bytes, but now does", depth |-> depth]>>
             ELSE <<>>)
         \o (IF diff.changed_nonascii
             THEN <<[line |-> "original had no non-ASCII bytes, but now does",
                     depth |-> depth]>>
             ELSE <<>>)
    ELSE <<>>

ShowDiff(diff, path, depth) ==
    CASE diff.kind = "Directory" ->
            IF diff.stats.changed > 0 \/ diff.stats.added > 0 \/ diff.stats.removed > 0
            THEN <<[line |-> "directory", path |-> path, depth |-> depth,
                    stats |-> diff.stats]>>
                 \o ShowEntries(diff.entries, MapIter(diff.entries), depth)
            ELSE <<>>
      [] diff.kind = "File" -> ShowFile(diff.stats, path, depth)
      [] diff.kind = "KindChanged" -> <<>>

(***************************************************************************)
(* Entry::insert and Entry::lookup.  A panic (unreachable!(), expect) is   *)
(* an outcome of its own: the call does not return.                        *)
(***************************************************************************)
\* get_default binding the key to V::default() whether it was bound or not.
GetDefaultFresh(m, key) == MapInsert(m, key, EntryDefault)

\* BTreeMapExt::get_default: the map with key bound to V::default() if it was unbound.
GetDefault(m, key) == IF key \in DOMAIN m THEN m ELSE MapInsert(m, key, EntryDefault)

\* LeafInsert overwriting a bound key without a panic.
LeafInsertSilent(entries, first, file) ==
    [entry |-> Directory(MapInsert(entries, first, file)), panic |-> FALSE]

\* Lines 158-161: BTreeMap::insert binds the key, and a key that was bound
\* already is unreachable!().
LeafInsert(entries, first, file) ==
    [entry |-> Directory(MapInsert(entries, first, file)),
     panic |-> first \in DOMAIN entries]

RECURSIVE InsertEntry(_, _, _)
\* The entry after the call, and whether the call panicked.
InsertEntry(self, path, file) ==
    IF self.kind = "Directory"
    THEN IF Len(path) = 0
         THEN [entry |-> self, panic |-> TRUE]
         ELSE LET first == Head(path)
                  rest == Tail(path)
              IN IF Len(path) > 1
                 THEN LET entries == GetDefault(self.entries, first)
                          sub == InsertEntry(entries[first], rest, file)
                      IN [entry |-> Directory([entries EXCEPT ![first] = sub.entry]),
                          panic |-> sub.panic]
                 ELSE LeafInsert(self.entries, first, file)
    ELSE [entry |-> self, panic |-> TRUE]

Panic == [kind |-> "Panic"]
Returned(x) == [kind |-> "Returned", value |-> x]

RECURSIVE LookupEntry(_, _)
\* What the call returns (an Option<&Entry>), or Panic.
LookupEntry(self, path) ==
    IF self.kind = "Directory"
    THEN IF Len(path) = 0
         THEN Panic
         ELSE LET first == Head(path)
                  rest == Tail(path)
              IN IF Len(path) > 1
                 THEN IF first \in DOMAIN self.entries
                      THEN LookupEntry(self.entries[first], rest)
                      ELSE Returned(None)
                 ELSE IF first \in DOMAIN self.entries
                      THEN Returned(Some(self.entries[first]))
                      ELSE Returned(None)
    ELSE Panic

RECURSIVE FilesOf(_, _)
RECURSIVE FilesUnder(_, _, _)
FilesUnder(entries, iter, prefix) ==
    IF iter = <<>> THEN {}
    ELSE FilesOf(entries[Head(iter)], Append(prefix, Head(iter)))
         \cup FilesUnder(entries, Tail(iter), prefix)
\* The files of a snapshot: each file's path from the root, with its metrics.
FilesOf(e, prefix) ==
    IF e.kind = "File" THEN {<<prefix, e.metrics>>}
    ELSE FilesUnder(e.entries, MapIter(e.entries), prefix)

(***************************************************************************)
(* Database::check: the old snapshot was built by an earlier run of        *)
(* Database::build, the new one is built now, then Database::show_diff     *)
(* runs Database::diff (the merge loop of the two root directories, one    *)
(* iteration at a time) and EntryDiff::show_diff.  The walker yields each  *)
(* file once, so no insert of a build panics.                              *)
(***************************************************************************)
Idle == [kind |-> "Idle"]

InitOthersForDiff ==
    /\ database = EntryDefault /\ status = "ok" /\ inserted = {} /\ call = Idle
    /\ content = <<>> /\ offset = 0 /\ engines = Idle /\ metrics = None /\ mpc = "idle"

\* A directory holding one file under key k.
OneFile(k, m) == Directory(MapInsert(<<>>, k, File(m)))

\* Two snapshots about to be built.
InitBuilds ==
    /\ old = EntryDefault
    /\ new = EntryDefault
    /\ pc = "build"

\* Two snapshots loaded from disk (Database::load_json, load_cbor), each of one
\* file, of any metrics.
InitLoaded ==
    /\ \E k \in Keys, j \in Keys, a \in AllMetrics, b \in AllMetrics :
          old = OneFile(k, a) /\ new = OneFile(j, b)
    /\ pc = "loaded"

Init ==
    /\ InitBuilds \/ InitLoaded
    /\ loop = Idle
    /\ result = None
    /\ output = <<>>
    /\ InitOthersForDiff

\* The two snapshots hold at most MaxFiles different files between them.
WithinBudget(o, n) == Cardinality(FilesOf(o, <<>>) \cup FilesOf(n, <<>>)) <= MaxFiles

InsertOld ==
    /\ pc = "build"
    /\ \E p \in Paths, m \in TreeMetrics :
          LET r == InsertEntry(old, p, File(m))
          IN /\ ~r.panic
             /\ WithinBudget(r.entry, new)
             /\ old' = r.entry
    /\ UNCHANGED <<new, pc, loop, result, output, buildVars, metricsVars>>

InsertNew ==
    /\ pc = "build"
    /\ \E p \in Paths, m \in TreeMetrics :
          LET r == InsertEntry(new, p, File(m))
          IN /\ ~r.panic
             /\ WithinBudget(old, r.entry)
             /\ new' = r.entry
    /\ UNCHANGED <<old, pc, loop, result, output, buildVars, metricsVars>>

DiffBegin ==
    /\ pc \in {"build", "loaded"}
    /\ old.kind = "Directory" /\ new.kind = "Directory"
    /\ loop' = MergeInit(old.entries, new.entries)
    /\ pc' = "loop"
    /\ UNCHANGED <<old, new, result, output, buildVars, metricsVars>>

LoopLess ==
    /\ pc = "loop"
    /\ MergeContinues(loop)
    /\ loop.old_entry[1] < loop.new_entry[1]
    /\ loop' = MergeStep(old.entries, new.entries, loop)
    /\ UNCHANGED <<old, new, pc, result, output, buildVars, metricsVars>>

LoopGreater ==
    /\ pc = "loop"
    /\ MergeContinues(loop)
    /\ loop.old_entry[1] > loop.new_entry[1]
    /\ loop' = MergeStep(old.entries, new.entries, loop)
    /\ UNCHANGED <<old, new, pc, result, output, buildVars, metricsVars>>

LoopEqual ==
    /\ pc = "loop"
    /\ MergeContinues(loop)
    /\ loop.old_entry[1] = loop.new_entry[1]
    /\ loop' = MergeStep(old.entries, new.entries, loop)
    /\ UNCHANGED <<old, new, pc, result, output, buildVars, metricsVars>>

DiffEnd ==
    /\ pc = "loop"
    /\ ~MergeContinues(loop)
    /\ result' = Some(MergeExit(loop))
    /\ pc' = "diffed"
    /\ UNCHANGED <<old, new, loop, output, buildVars, metricsVars>>

Show ==
    /\ pc = "diffed"
    /\ output' = ShowDiff(result[1], RootPath, 0)
    /\ pc' = "shown"
    /\ UNCHANGED <<old, new, loop, result, buildVars, metricsVars>>

NextDiff == DiffBegin \/ LoopLess \/ LoopGreater \/ LoopEqual \/ DiffEnd \/ Show

Next == InsertOld \/ InsertNew \/ NextDiff

Spec == Init /\ [][Next]_vars

\* The loop of the root directories computes what Entry::diff computes.
DiffAgrees == pc \in {"diffed", "shown"} => result[1] = Diff(old, new)

(***************************************************************************)
(* Properties of Entry::diff and EntryDiff::show_diff.                     *)
(***************************************************************************)
Diffed == pc \in {"diffed", "shown"}

RECURSIVE SumStat(_, _, _)
\* The sum of one counter over the Directory diffs among the given entries.
SumStat(entries, iter, counter) ==
    IF iter = <<>> THEN 0
    ELSE (IF entries[Head(iter)].kind = "Directory"
          THEN entries[Head(iter)].stats[counter] ELSE 0)
         + SumStat(entries, Tail(iter), counter)

\* C1: `removed` is the number of keys of old that are not keys of new plus the
\* `removed` of the Directory diffs recorded for the common keys, and `added` is
\* the number of keys of new that are not keys of old plus their `added`: every
\* key that is on one side only is counted, those left when the loop stops too.
C1_EveryOneSidedKeyCounted ==
    Diffed =>
        LET d == result[1]
            ko == DOMAIN old.entries
            kn == DOMAIN new.entries
        IN /\ d.stats.removed =
                  Cardinality(ko \ kn) + SumStat(d.entries, MapIter(d.entries), "removed")
           /\ d.stats.added =
                  Cardinality(kn \ ko) + SumStat(d.entries, MapIter(d.entries), "added")

RECURSIVE Clean(_)
\* No count of a change and no flag of a change anywhere in a diff.
Clean(d) ==
    CASE d.kind = "Directory" ->
            /\ d.stats.added = 0 /\ d.stats.removed = 0 /\ d.stats.changed = 0
            /\ \A k \in DOMAIN d.entries : Clean(d.entries[k])
      [] d.kind = "File" ->
            /\ ~d.stats.changed_content /\ ~d.stats.zeroed
            /\ ~d.stats.changed_nul /\ ~d.stats.changed_nonascii
      [] d.kind = "KindChanged" -> FALSE

\* C2: the diff of a snapshot against itself has added = removed = changed = 0 in
\* every Directory diff, all four flags false in every File diff, no KindChanged.
C2_DiffIdentity == (Diffed /\ old = new) => Clean(result[1])

C2_Witness ==
    /\ Diffed /\ old = new
    /\ Cardinality(FilesOf(old, <<>>)) = 2
    /\ \E k \in DOMAIN old.entries : old.entries[k].kind = "Directory"
    /\ result[1].stats.unchanged = 2

RECURSIVE Mirrored(_, _)
\* e is d with added and removed swapped, at every Directory diff.
Mirrored(d, e) ==
    /\ d.kind = e.kind
    /\ d.kind = "Directory" =>
          /\ d.stats.added = e.stats.removed
          /\ d.stats.removed = e.stats.added
          /\ d.stats.changed = e.stats.changed
          /\ d.stats.unchanged = e.stats.unchanged
          /\ DOMAIN d.entries = DOMAIN e.entries
          /\ \A k \in DOMAIN d.entries : Mirrored(d.entries[k], e.entries[k])

\* C3: diff(B, A) reports the counts of diff(A, B) with added and removed
\* swapped and changed and unchanged kept, at the root and at every Directory
\* diff recorded at the same path.
C3_DiffSymmetry == Diffed => Mirrored(result[1], Diff(new, old))

C3_Witness ==
    /\ Diffed
    /\ result[1].stats.added # result[1].stats.removed
    /\ \E k \in DOMAIN result[1].entries : result[1].entries[k].kind = "Directory"

\* The iteration of the root loop that is about to run compares a File with a
\* Directory under the same key.
KindMismatchNext ==
    /\ pc = "loop" /\ MergeContinues(loop)
    /\ loop.old_entry[1] = loop.new_entry[1]
    /\ old.entries[loop.old_entry[1]].kind # new.entries[loop.new_entry[1]].kind

\* C4: a key that is a File on one side and a Directory on the other is recorded
\* as KindChanged, adds exactly 1 to `changed` and nothing to the other three
\* counters, whatever the Directory holds.
C4_KindChanged ==
    [][KindMismatchNext =>
          /\ loop'.entries = MapInsert(loop.entries, loop.old_entry[1], KindChanged)
          /\ loop'.changed = loop.changed + 1
          /\ loop'.added = loop.added
          /\ loop'.removed = loop.removed
          /\ loop'.unchanged = loop.unchanged]_vars

C4_Witness ==
    /\ Diffed
    /\ \E k \in DOMAIN result[1].entries :
          /\ result[1].entries[k] = KindChanged
          /\ old.entries[k].kind = "File"
          /\ new.entries[k].kind = "Directory"
          /\ Cardinality(DOMAIN new.entries[k].entries) >= 1
    /\ result[1].stats.changed = 1

RECURSIVE Leaves(_, _)
RECURSIVE SumLeaves(_, _, _)
SumLeaves(entries, iter, changed) ==
    IF iter = <<>> THEN 0
    ELSE Leaves(entries[Head(iter)], changed) + SumLeaves(entries, Tail(iter), changed)
\* With changed = TRUE, the File diffs whose content changed plus the KindChanged
\* nodes of a diff; with changed = FALSE, the File diffs whose content did not.
Leaves(d, changed) ==
    CASE d.kind = "Directory" -> SumLeaves(d.entries, MapIter(d.entries), changed)
      [] d.kind = "File" -> IF d.stats.changed_content = changed THEN 1 ELSE 0
      [] d.kind = "KindChanged" -> IF changed THEN 1 ELSE 0

RECURSIVE Aggregated(_, _, _)
Aggregated(o, n, d) ==
    d.kind = "Directory" =>
        /\ DOMAIN d.entries = (DOMAIN o.entries) \cap (DOMAIN n.entries)
        /\ d.stats.changed = Leaves(d, TRUE)
        /\ d.stats.unchanged = Leaves(d, FALSE)
        /\ \A k \in DOMAIN d.entries : Aggregated(o.entries[k], n.entries[k], d.entries[k])

\* C10: in every Directory diff, `changed` is the number of File diffs with
\* changed content plus the number of KindChanged nodes in its subtree,
\* `unchanged` the number of File diffs with unchanged content in its subtree,
\* and its keys are the keys present in both directories.
C10_Aggregation == Diffed => Aggregated(old, new, result[1])

C10_Witness ==
    /\ Diffed
    /\ \E k \in DOMAIN result[1].entries :
          /\ result[1].entries[k].kind = "Directory"
          /\ result[1].entries[k].stats.changed = 1
    /\ result[1].stats.changed = 1

RECURSIVE FileFlags(_, _, _)
\* What C5 says of a File diff, at every File diff of d.
FileFlags(o, n, d) ==
    CASE d.kind = "Directory" ->
            \A k \in DOMAIN d.entries : FileFlags(o.entries[k], n.entries[k], d.entries[k])
      [] d.kind = "File" ->
            LET a == o.metrics
                b == n.metrics
            IN /\ d.stats.zeroed <=> (a.size > 0 /\ b.size = 0)
               /\ d.stats.zeroed => d.stats.changed_content
               /\ (a.size = 0 /\ b.size = 0) => ~d.stats.zeroed
               /\ d.stats.changed_content <=>
                     (a.size # b.size \/ a.sha2 # b.sha2 \/ a.sha3 # b.sha3)
      [] d.kind = "KindChanged" -> TRUE

\* C5: zeroed is set exactly when the old size is > 0 and the new size is 0, it
\* implies changed_content, a file empty in both snapshots is never zeroed, and
\* changed_content is set exactly when the size or one of the digests differs.
C5_Zeroed == Diffed => FileFlags(old, new, result[1])

C5_Witness ==
    /\ Diffed
    /\ \E k \in DOMAIN result[1].entries :
          /\ result[1].entries[k].kind = "File"
          /\ old.entries[k].metrics.size = 100
          /\ new.entries[k].metrics.size = 0
          /\ old.entries[k].metrics.sha2 = new.entries[k].metrics.sha2
          /\ old.entries[k].metrics.sha3 = new.entries[k].metrics.sha3
          /\ result[1].entries[k].stats.zeroed
          /\ result[1].entries[k].stats.changed_content

\* Each snapshot is one file, both under the same key.
OneFileEach ==
    /\ DOMAIN old.entries = DOMAIN new.entries
    /\ Cardinality(DOMAIN old.entries) = 1
    /\ \A k \in DOMAIN old.entries :
          old.entries[k].kind = "File" /\ new.entries[k].kind = "File"
TheKey == CHOOSE k \in DOMAIN old.entries : TRUE

Printed(text) == \E i \in 1..Len(output) : output[i].line = text

\* C9: the report says that a NUL byte newly appeared only when the old file had
\* nul = false and the new one nul = true, says that a non-ASCII byte newly
\* appeared only when the old file had nonascii = false and the new one nonascii
\* = true, and prints nothing for a directory whose added, removed and changed
\* counts are all zero.
C9_NewlyAppeared ==
    pc = "shown" =>
        /\ OneFileEach =>
              LET a == old.entries[TheKey].metrics
                  b == new.entries[TheKey].metrics
              IN /\ Printed("original had no NUL bytes, but now does")
                       => (~a.nul /\ b.nul)
                 /\ Printed("original had no non-ASCII bytes, but now does")
                       => (~a.nonascii /\ b.nonascii)
        /\ (/\ result[1].stats.added = 0
            /\ result[1].stats.removed = 0
            /\ result[1].stats.changed = 0) => output = <<>>

(***************************************************************************)
(* Building and querying one snapshot: Database::insert and                *)
(* Database::lookup called with any path, the calls that break the         *)
(* walker's contract included.  A panic ends the process.                  *)
(***************************************************************************)
InitOthersForBuild ==
    /\ old = EntryDefault /\ new = EntryDefault /\ pc = "idle" /\ loop = Idle
    /\ result = None /\ output = <<>>
    /\ content = <<>> /\ offset = 0 /\ engines = Idle /\ metrics = None /\ mpc = "idle"

InitBuild ==
    /\ database = EntryDefault
    /\ status = "ok"
    /\ inserted = {}
    /\ call = Idle
    /\ InitOthersForBuild

Insert ==
    /\ status = "ok"
    /\ Cardinality(inserted) < MaxFiles
    /\ \E p \in Paths, m \in TreeMetrics :
          LET r == InsertEntry(database, p, File(m))
          IN /\ database' = r.entry
             /\ status' = IF r.panic THEN "panicked" ELSE "ok"
             /\ inserted' = IF r.panic THEN inserted ELSE inserted \cup {<<p, m>>}
             /\ call' = [op |-> "insert", path |-> p, file |-> File(m),
                         outcome |-> IF r.panic THEN Panic ELSE Returned(None)]
    /\ UNCHANGED <<diffVars, metricsVars>>

Lookup ==
    /\ status = "ok"
    /\ \E p \in LookupPaths :
          LET r == LookupEntry(database, p)
          IN /\ call' = [op |-> "lookup", path |-> p, outcome |-> r]
             /\ status' = IF r = Panic THEN "panicked" ELSE "ok"
    /\ UNCHANGED <<database, inserted, diffVars, metricsVars>>

NextBuild == Insert \/ Lookup

SpecBuild == InitBuild /\ [][NextBuild]_vars

\* q is the first segments of p.
IsPrefix(q, p) == Len(q) <= Len(p) /\ SubSeq(p, 1, Len(q)) = q
\* In terms of the files inserted: q is the root or a directory implied by a
\* longer inserted path; q is an inserted path or such a directory.
ImpliedDirectory(q) == q = <<>> \/ \E f \in inserted : IsPrefix(q, f[1]) /\ q # f[1]
Present(q) == \E f \in inserted : IsPrefix(q, f[1])
\* Some segment of p is missing from the directory it is looked up in.
SegmentMissing(p) ==
    \E i \in 1..Len(p) :
        /\ ImpliedDirectory(SubSeq(p, 1, i - 1))
        /\ ~Present(SubSeq(p, 1, i))
PrefixFree ==
    \A f \in inserted, g \in inserted : IsPrefix(f[1], g[1]) => f = g

\* C6: after inserts of files at distinct paths none of which is a proper prefix
\* of another, lookup of each inserted path returns the File inserted there
\* (so no later insert changed it), and lookup of a path one of whose segments
\* is missing from the directory it is looked up in returns nothing.
C6_InsertLookup ==
    (status = "ok" /\ PrefixFree) =>
        /\ \A f \in inserted : LookupEntry(database, f[1]) = Returned(Some(File(f[2])))
        /\ \A p \in LookupPaths :
              SegmentMissing(p) => LookupEntry(database, p) = Returned(None)
        /\ (call # Idle /\ call.op = "lookup") =>
              /\ \A f \in inserted :
                    f[1] = call.path => call.outcome = Returned(Some(File(f[2])))
              /\ SegmentMissing(call.path) => call.outcome = Returned(None)

C6_Witness ==
    /\ status = "ok"
    /\ Cardinality(inserted) = 2
    /\ call # Idle /\ call.op = "lookup" /\ Len(call.path) = 2
    /\ \E f \in inserted : f[1] = call.path /\ call.outcome = Returned(Some(File(f[2])))
    /\ \E p \in LookupPaths : Len(p) = 2 /\ SegmentMissing(p)

\* The step is a call of insert.
InsertStep == call' # call /\ call'.op = "insert"
\* The final key of p exists already in its directory (p is an inserted path
\* or an implied directory), or p passes through a File.
Conflicts(p) ==
    \/ Present(p)
    \/ \E f \in inserted : IsPrefix(f[1], p) /\ f[1] # p

\* C7: an insert at a path whose final key exists already, or that passes
\* through a File, panics and does not return; so an insert that returns leaves
\* every File where and as it was and every directory a directory.
C7_InsertViolationsFatal ==
    [][InsertStep =>
          /\ Conflicts(call'.path) => (status' = "panicked" /\ call'.outcome = Panic)
          /\ status' = "ok" =>
                \A p \in Paths :
                    LET before == LookupEntry(database, p)
                        after == LookupEntry(database', p)
                    IN (before # Panic /\ before # Returned(None)) =>
                          IF before.value[1].kind = "File"
                          THEN after = before
                          ELSE /\ after # Panic /\ after # Returned(None)
                               /\ after.value[1].kind = "Directory"]_vars

C7_Witness ==
    /\ status = "panicked"
    /\ call.op = "insert"
    /\ call.outcome = Panic
    /\ ImpliedDirectory(call.path)

(***************************************************************************)
(* compute_metrics: the file is read in chunks of any size the reader      *)
(* returns, each fed to the five engines.  A digest accumulator is         *)
(* modelled by the bytes it has absorbed and its result by an injective    *)
(* function of them.                                                       *)
(***************************************************************************)
BufferSize == 4096

Min(a, b) == IF a < b THEN a ELSE b

EngineSizeInput(st, input) == st + Len(input)
\* EngineNul::input forgetting what the earlier chunks held.
EngineNulInputLastChunk(st, input) == \E i \in 1..Len(input) : input[i] = 0
EngineNulInput(st, input) == st \/ \E i \in 1..Len(input) : input[i] = 0
\* x & 0x80 != 0 for a u8.
EngineNonasciiInput(st, input) == st \/ \E i \in 1..Len(input) : (input[i] \div 128) % 2 # 0
DigestInput(st, input) == st \o input
HashSum(alg, absorbed) == [alg |-> alg, of |-> absorbed]

EnginesDefault ==
    [sha2 |-> <<>>, sha3 |-> <<>>, size |-> 0, nul |-> FALSE, nonascii |-> FALSE]

EnginesInput(e, input) ==
    [sha2 |-> DigestInput(e.sha2, input),
     sha3 |-> DigestInput(e.sha3, input),
     size |-> EngineSizeInput(e.size, input),
     nul |-> EngineNulInput(e.nul, input),
     nonascii |-> EngineNonasciiInput(e.nonascii, input)]

EnginesResult(e) ==
    Metrics(HashSum("Sha256", e.sha2), HashSum("Sha3_256", e.sha3),
            e.size, e.nul, e.nonascii)

FileContents == UNION {[1..n -> Bytes] : n \in 0..MaxFileLen}

InitOthersForMetrics ==
    /\ old = EntryDefault /\ new = EntryDefault /\ pc = "idle" /\ loop = Idle
    /\ result = None /\ output = <<>>
    /\ database = EntryDefault /\ status = "ok" /\ inserted = {} /\ call = Idle

InitMetrics ==
    /\ content \in FileContents
    /\ offset = 0
    /\ engines = EnginesDefault
    /\ metrics = None
    /\ mpc = "reading"
    /\ InitOthersForMetrics

\* f.read returned n > 0 bytes.
Read ==
    /\ mpc = "reading"
    /\ \E n \in 1..Min(BufferSize, Len(content) - offset) :
          /\ engines' = EnginesInput(engines, SubSeq(content, offset + 1, offset + n))
          /\ offset' = offset + n
    /\ UNCHANGED <<content, metrics, mpc, diffVars, buildVars>>

\* f.read returned 0: the end of the file.
ReadEnd ==
    /\ mpc = "reading"
    /\ offset = Len(content)
    /\ metrics' = Some(EnginesResult(engines))
    /\ mpc' = "done"
    /\ UNCHANGED <<content, offset, engines, diffVars, buildVars>>

\* f.read returned an error, which compute_metrics returns.
ReadFails ==
    /\ mpc = "reading"
    /\ mpc' = "failed"
    /\ UNCHANGED <<content, offset, engines, metrics, diffVars, buildVars>>

NextMetrics == Read \/ ReadEnd \/ ReadFails

SpecMetrics == InitMetrics /\ [][NextMetrics]_vars

\* C8: however the bytes were split into chunks, size is their number, nul is
\* set exactly when one of them is 0x00 and nonascii exactly when one of them
\* is >= 0x80; the empty file has size 0 and neither flag.
C8_ChunkingIndependent ==
    mpc = "done" =>
        /\ metrics[1].size = Len(content)
        /\ metrics[1].nul <=> \E i \in 1..Len(content) : content[i] = 0
        /\ metrics[1].nonascii <=> \E i \in 1..Len(content) : content[i] >= 128
        /\ content = <<>> =>
              (metrics[1].size = 0 /\ ~metrics[1].nul /\ ~metrics[1].nonascii)

C8_Witness ==
    /\ mpc = "done"
    /\ Len(content) = 3
    /\ content[1] = 0 /\ content[2] = 65 /\ content[3] = 128
    /\ metrics[1].size = 3 /\ metrics[1].nul /\ metrics[1].nonascii

====
